---- MODULE Spec2Model ----
(***************************************************************************)
(* Scan lifecycle engine (createScan/runScan/cancel/delete/update/clear)   *)
(* and the raw HTTP request parser it validates targets with.              *)
(*                                                                         *)
(* Text is a sequence of one-character strings.  An optional field of a    *)
(* scan (finishedAt, error) is <<>> when unset and <<v>> when set.         *)
(***************************************************************************)
EXTENDS Integers, Sequences, FiniteSets, TLC

(* ------------------------------ bounds -------------------------------- *)
\* scans created plus runs started over a behaviour
MaxWork == 2
\* scans created over a behaviour of SpecIds
MaxIds == 3
\* scans created plus runs started over a behaviour of SpecRun
MaxRunWork == 3
\* readings of the wall clock: new Date() yields 1..MaxTime
MaxTime == 2
\* header lines of a request text handed to the parser
MaxHeaderLines == 2
\* body lines of a request text handed to the parser
MaxBodyLines == 2

(* --------------------------- text primitives -------------------------- *)
\* characters matched by \s and stripped by String.prototype.trim
IsSpace(c) == c \in {" ", "\t", "\r", "\n"}

ToUpperChar(c) ==
  CASE c = "g" -> "G" [] c = "e" -> "E" [] c = "t" -> "T"
    [] c = "h" -> "H" [] c = "x" -> "X" [] c = "a" -> "A"
    [] c = "b" -> "B" [] OTHER -> c

ToLowerChar(c) ==
  CASE c = "G" -> "g" [] c = "E" -> "e" [] c = "T" -> "t"
    [] c = "H" -> "h" [] c = "X" -> "x" [] c = "A" -> "a"
    [] c = "B" -> "b" [] OTHER -> c

toUpperCase(s) == [i \in 1..Len(s) |-> ToUpperChar(s[i])]

toLowerCase(s) == [i \in 1..Len(s) |-> ToLowerChar(s[i])]

RECURSIVE TrimStart(_)
TrimStart(s) ==
  IF s # <<>> /\ IsSpace(Head(s)) THEN TrimStart(Tail(s)) ELSE s

RECURSIVE TrimEnd(_)
TrimEnd(s) ==
  IF s # <<>> /\ IsSpace(s[Len(s)])
    THEN TrimEnd(SubSeq(s, 1, Len(s) - 1))
    ELSE s

trim(s) == TrimEnd(TrimStart(s))

\* s.split(/\r?\n/): acc are the finished lines, cur the line being read
RECURSIVE SplitLinesFrom(_, _, _)
SplitLinesFrom(s, acc, cur) ==
  IF s = <<>> THEN Append(acc, cur)
  ELSE IF Head(s) = "\n"
    THEN SplitLinesFrom(Tail(s),
           Append(acc, IF cur # <<>> /\ cur[Len(cur)] = "\r"
                         THEN SubSeq(cur, 1, Len(cur) - 1)
                         ELSE cur),
           <<>>)
    ELSE SplitLinesFrom(Tail(s), acc, Append(cur, Head(s)))

SplitLines(s) == SplitLinesFrom(s, <<>>, <<>>)

\* s.split(/\s+/): a run of white space is one separator
RECURSIVE SplitSpaceFrom(_, _, _, _)
SplitSpaceFrom(s, acc, cur, inSep) ==
  IF s = <<>> THEN Append(acc, cur)
  ELSE IF IsSpace(Head(s))
    THEN IF inSep
           THEN SplitSpaceFrom(Tail(s), acc, cur, TRUE)
           ELSE SplitSpaceFrom(Tail(s), Append(acc, cur), <<>>, TRUE)
    ELSE SplitSpaceFrom(Tail(s), acc, Append(cur, Head(s)), FALSE)

SplitSpace(s) == SplitSpaceFrom(s, <<>>, <<>>, FALSE)

\* s.split(":")
RECURSIVE SplitColonFrom(_, _, _)
SplitColonFrom(s, acc, cur) ==
  IF s = <<>> THEN Append(acc, cur)
  ELSE IF Head(s) = ":"
    THEN SplitColonFrom(Tail(s), Append(acc, cur), <<>>)
    ELSE SplitColonFrom(Tail(s), acc, Append(cur, Head(s)))

SplitColon(s) == SplitColonFrom(s, <<>>, <<>>)

\* parts.join(sep)
RECURSIVE Join(_, _)
Join(parts, sep) ==
  IF parts = <<>> THEN <<>>
  ELSE IF Len(parts) = 1 THEN parts[1]
  ELSE parts[1] \o sep \o Join(Tail(parts), sep)

(* ------------------------------ the parser ---------------------------- *)
HTTP11 == <<"H", "T", "T", "P", "/", "1", ".", "1">>

\* parseRequestLine: trim, split on white space, at least two tokens
parseRequestLine(requestLineString) ==
  LET parts == SplitSpace(trim(requestLineString)) IN
  IF Len(parts) < 2
    THEN [ok |-> FALSE, error |-> "Invalid request line format",
          method |-> <<>>, uri |-> <<>>, protocol |-> <<>>]
    ELSE [ok |-> TRUE, error |-> "",
          method |-> toUpperCase(parts[1]),
          uri |-> parts[2],
          protocol |-> IF Len(parts) >= 3 /\ parts[3] # <<>>
                         THEN parts[3] ELSE HTTP11]

\* headers[key.toLowerCase()] = value: a later key overwrites
SetHeader(headers, key, value) ==
  [k \in DOMAIN headers \cup {key} |-> IF k = key THEN value ELSE headers[k]]

RECURSIVE ParseHeadersFrom(_, _)
ParseHeadersFrom(headerLines, headers) ==
  IF headerLines = <<>> THEN headers
  ELSE
    LET line == Head(headerLines)
        parts == SplitColon(line)
        key == trim(parts[1])
        value == trim(Join(Tail(parts), <<":">>))
    IN IF \A i \in 1..Len(line) : line[i] # ":"
         THEN ParseHeadersFrom(Tail(headerLines), headers)
         ELSE IF key # <<>>
           THEN ParseHeadersFrom(Tail(headerLines),
                                 SetHeader(headers, toLowerCase(key), value))
           ELSE ParseHeadersFrom(Tail(headerLines), headers)

parseHeaders(headerLines) == ParseHeadersFrom(headerLines, <<>>)

\* a faulty TakeHeaderLines: the loop does not stop at the empty line
TakeAllLines(lines, headerLines) ==
  LET NotEmpty(line) == line # <<>> IN
  [headerLines |-> headerLines \o SelectSeq(lines, NotEmpty), rest |-> <<>>]

\* the while loop of parseRequest: shift lines into headerLines up to the
\* first empty line, which is consumed; rest is what stays in lines
RECURSIVE TakeHeaderLines(_, _)
TakeHeaderLines(lines, headerLines) ==
  IF lines = <<>> THEN [headerLines |-> headerLines, rest |-> <<>>]
  ELSE IF Head(lines) = <<>>
    THEN [headerLines |-> headerLines, rest |-> Tail(lines)]
    ELSE TakeHeaderLines(Tail(lines), Append(headerLines, Head(lines)))

ParseFailure(message) ==
  [ok |-> FALSE, error |-> message, method |-> <<>>, uri |-> <<>>,
   protocol |-> <<>>, headers |-> <<>>, body |-> <<>>]

\* parseRequest; every throw is re-thrown as "Request parsing failed: ..."
parseRequest(requestString) ==
  IF requestString = <<>>
    THEN ParseFailure("Request parsing failed: Invalid request string provided")
  ELSE
    LET lines == SplitLines(requestString)
        parsedRequestLine == parseRequestLine(Head(lines))
        split == TakeHeaderLines(Tail(lines), <<>>)
    IN IF ~parsedRequestLine.ok
         THEN ParseFailure("Request parsing failed: Invalid request line format")
       ELSE IF parsedRequestLine.method = <<>> \/ parsedRequestLine.uri = <<>>
         THEN ParseFailure("Request parsing failed: Invalid request line format")
       ELSE [ok |-> TRUE, error |-> "",
             method |-> parsedRequestLine.method,
             uri |-> parsedRequestLine.uri,
             protocol |-> parsedRequestLine.protocol,
             headers |-> parseHeaders(split.headerLines),
             body |-> Join(split.rest, <<"\r", "\n">>)]

(* --------------------------- calls of the parser ---------------------- *)
\* the parser has not been called
NoCall == [op |-> "none"]

\* request lines, each with the outcome written out by hand:
\* "GET /", " get \t/x H/1 " and "GET"
RequestLines ==
  {[text |-> <<"G", "E", "T", " ", "/">>, ok |-> TRUE,
    method |-> <<"G", "E", "T">>, uri |-> <<"/">>,
    protocol |-> <<"H", "T", "T", "P", "/", "1", ".", "1">>],
   [text |-> <<" ", "g", "e", "t", " ", "\t", "/", "x", " ", "H", "/", "1", " ">>,
    ok |-> TRUE,
    method |-> <<"G", "E", "T">>, uri |-> <<"/", "x">>,
    protocol |-> <<"H", "/", "1">>],
   [text |-> <<"G", "E", "T">>, ok |-> FALSE,
    method |-> <<>>, uri |-> <<>>, protocol |-> <<>>]}

\* header lines, each with the key and value written out by hand:
\* "x: b", "X:a:b", "ab", ":a" and " A :b "
HeaderLines ==
  {[text |-> <<"x", ":", " ", "b">>, colon |-> TRUE,
    key |-> <<"x">>, value |-> <<"b">>],
   [text |-> <<"X", ":", "a", ":", "b">>, colon |-> TRUE,
    key |-> <<"x">>, value |-> <<"a", ":", "b">>],
   [text |-> <<"a", "b">>, colon |-> FALSE, key |-> <<>>, value |-> <<>>],
   [text |-> <<":", "a">>, colon |-> TRUE, key |-> <<>>, value |-> <<"a">>],
   [text |-> <<" ", "A", " ", ":", "b", " ">>, colon |-> TRUE,
    key |-> <<"a">>, value |-> <<"b">>]}

\* body lines: an empty line, a line that looks like a header, a plain line
BodyLines == {<<>>, <<"x", ":", "a">>, <<"b">>}

\* the line ends split(/\r?\n/) accepts
LineEnds == {<<"\n">>, <<"\r", "\n">>}

SeqsUpTo(S, n) == UNION {[1..k -> S] : k \in 0..n}

\* what a request text is made of: the request line, the header lines, the
\* empty line and the body lines after it when there is one, the line end
ParserInputs ==
  {[requestLine |-> q, headerLines |-> h, blank |-> b, bodyLines |-> d,
    lineEnd |-> e] :
     q \in RequestLines, h \in SeqsUpTo(HeaderLines, MaxHeaderLines),
     b \in BOOLEAN, d \in SeqsUpTo(BodyLines, MaxBodyLines),
     e \in LineEnds}

HeaderTexts(in) == [i \in 1..Len(in.headerLines) |-> in.headerLines[i].text]

\* the request text: its lines joined with the line end
RequestText(in) ==
  Join(<<in.requestLine.text>> \o HeaderTexts(in)
         \o (IF in.blank THEN <<<<>>>> \o in.bodyLines ELSE <<>>),
       in.lineEnd)

(* ------------------------------- the state ---------------------------- *)
VARIABLES
  store,       \* ScanStore: the scans, in insertion order
  runs,        \* runScan invocations that started a worker, in call order
  now,         \* the wall clock read by new Date()
  created,     \* scans created so far; a scan's uid is its rank of creation
  publishOk,   \* whether sdk.api.send delivers (TRUE) or throws (FALSE)
  ret,         \* what the last operation returned to its caller
  published,   \* the events the last operation handed to sdk.api.send
  parser       \* the parser's last call: its argument and what it returned

vars == <<store, runs, now, created, publishOk, ret, published, parser>>

Terminal == {"Completed", "Failed", "Timed Out", "Cancelled"}

States == {"Pending", "Running"} \cup Terminal

\* "GET /", "GET" and an absent request
GoodRequest == <<"G", "E", "T", " ", "/">>

BadRequest == <<"G", "E", "T">>

NoRequest == <<>>

Targets == {[request |-> r] : r \in {GoodRequest, BadRequest, NoRequest}}

\* messages a failing worker rejects with; "" is an Error without a message
WorkerMessages == {"boom", ""}

\* the partial records updateScan is called with: the target is edited
\* between create and run
UpdateFields == {[Target |-> [request |-> BadRequest]]}

ScanIds == 1..MaxWork

Event(name, id, state) == [name |-> name, id |-> id, State |-> state]

Return(op, kind, error) == [op |-> op, kind |-> kind, error |-> error]

(* ------------------------------ ScanStore ----------------------------- *)
HasScan(scans, id) == \E i \in 1..Len(scans) : scans[i].ID = id

\* scanStore.getScan(id), for an id the store holds
StoreGetScan(scans, id) ==
  scans[CHOOSE i \in 1..Len(scans) :
          scans[i].ID = id /\ \A j \in 1..(i - 1) : scans[j].ID # id]

\* fields merged into the scan
Merge(scan, fields) ==
  [f \in DOMAIN scan |-> IF f \in DOMAIN fields THEN fields[f] ELSE scan[f]]

\* scanStore.updateScan(id, fields): no effect when the id is absent
StoreUpdateScan(scans, id, fields) ==
  [i \in 1..Len(scans) |->
     IF scans[i].ID = id /\ \A j \in 1..(i - 1) : scans[j].ID # id
       THEN Merge(scans[i], fields)
       ELSE scans[i]]

StoreDeleteScan(scans, id) ==
  LET Keep(scan) == scan.ID # id IN SelectSeq(scans, Keep)

StoreAddScan(scans, scan) == Append(scans, scan)

StoreClearScans(scans) == <<>>

(* ------------------------------- queries ------------------------------ *)
getScan(id) ==
  IF HasScan(store, id)
    THEN [kind |-> "Success", value |-> StoreGetScan(store, id)]
    ELSE [kind |-> "Error", error |-> "Scan not found"]

getScans == [kind |-> "Success", value |-> store]

\* scans.reduce((maxId, scan) => Math.max(maxId, scan.ID), 0)
RECURSIVE ReduceMax(_, _)
ReduceMax(scans, maxId) ==
  IF scans = <<>> THEN maxId
  ELSE ReduceMax(Tail(scans),
                 IF Head(scans).ID > maxId THEN Head(scans).ID ELSE maxId)

\* a faulty getHighestId: the number of scans instead of the largest ID
CountScans(scans) == Len(scans)

getHighestId(scans) == ReduceMax(scans, 0)

(* ------------------------------ publishing ---------------------------- *)
\* sdk.api.send: the events are delivered, or send throws and delivers none
Sent(events) == IF publishOk THEN events ELSE <<>>

PublishError == "publish failed"

(* ------------------------------ cancelScan ---------------------------- *)
\* an entry of a run's log of terminal writes: the State written and the uid
\* of the scan it was merged into, 0 when the store did not hold the id
Write(state, uid) == [state |-> state, uid |-> uid]

\* cancelScan marks a Running scan Cancelled; on any other scan it is a no-op
CancelApplies(scans, id) ==
  HasScan(scans, id) /\ StoreGetScan(scans, id).State = "Running"

CancelStore(scans, id, t) ==
  IF CancelApplies(scans, id)
    THEN StoreUpdateScan(scans, id,
                         [State |-> "Cancelled", finishedAt |-> <<t>>])
    ELSE scans

\* the runs in flight for the scan see one more terminal writer
CancelRuns(rs, scans, id) ==
  [r \in 1..Len(rs) |->
     IF CancelApplies(scans, id) /\ rs[r].scanID = id /\ rs[r].result = "pending"
       THEN [rs[r] EXCEPT !.writes =
               Append(@, Write("Cancelled", StoreGetScan(scans, id).uid))]
       ELSE rs[r]]

CancelEvents(scans, id) ==
  IF CancelApplies(scans, id)
    THEN <<Event("scans:updated", id, "Cancelled")>>
    ELSE <<>>

\* the runs started for the scan stored under id learn that op removes it
RemovedBy(rs, scans, id, op) ==
  [r \in 1..Len(rs) |->
     IF /\ HasScan(scans, id)
        /\ rs[r].scanID = id
        /\ rs[r].uid = StoreGetScan(scans, id).uid
       THEN [rs[r] EXCEPT !.removed = op]
       ELSE rs[r]]

CancelScan(id) ==
  /\ store' = CancelStore(store, id, now)
  /\ runs' = CancelRuns(runs, store, id)
  /\ published' = Sent(CancelEvents(store, id))
  /\ ret' = Return("cancelScan", "None", "")
  /\ UNCHANGED <<now, created, publishOk, parser>>

(* ------------------------------- addScan ------------------------------ *)
InvalidRequestFormat(message) ==
  CASE message = "Request parsing failed: Invalid request string provided"
         -> "Invalid request format: Request parsing failed: Invalid request string provided"
    [] message = "Request parsing failed: Invalid request line format"
         -> "Invalid request format: Request parsing failed: Invalid request line format"
    [] message = "Invalid scan target: Missing request data"
         -> "Invalid request format: Invalid scan target: Missing request data"
    [] OTHER -> "Invalid request format"

\* a faulty AddScanCheck: the request is stored without being parsed
AddScanNoCheck(target) == ""

\* addScan's check: "" when the target passes, else the error returned
AddScanCheck(target) ==
  LET parsed == parseRequest(target.request) IN
  IF target.request # <<>> /\ ~parsed.ok
    THEN InvalidRequestFormat(parsed.error)
    ELSE ""

NextId(scans) == getHighestId(scans) + 1

NewScan(scans, target, uid) ==
  [ID |-> NextId(scans), uid |-> uid, State |-> "Running", Target |-> target,
   Results |-> <<>>, finishedAt |-> <<>>, error |-> <<>>]

AddScan(target) ==
  LET check == AddScanCheck(target) IN
  IF check # ""
    THEN /\ ret' = Return("addScan", "Error", check)
         /\ published' = <<>>
         /\ UNCHANGED <<store, runs, now, created, publishOk, parser>>
    ELSE /\ store' = StoreAddScan(store, NewScan(store, target, created + 1))
         /\ created' = created + 1
         /\ published' = Sent(<<Event("scans:created", NextId(store), "Running")>>)
         /\ ret' = IF publishOk
                     THEN Return("addScan", "Success", "")
                     ELSE Return("addScan", "Error", "Failed to add scan: publish failed")
         /\ UNCHANGED <<runs, now, publishOk, parser>>

(* ------------------------- deleteScan, updateScan --------------------- *)
DeleteScan(id) ==
  /\ store' = StoreDeleteScan(CancelStore(store, id, now), id)
  /\ runs' = RemovedBy(CancelRuns(runs, store, id), store, id, "deleteScan")
  /\ published' =
       Sent(CancelEvents(store, id) \o <<Event("scans:deleted", id, "")>>)
  /\ ret' = IF publishOk
              THEN Return("deleteScan", "Success", "")
              ELSE Return("deleteScan", "Error", "Failed to delete scan: publish failed")
  /\ UNCHANGED <<now, created, publishOk, parser>>

UpdateState(fields) == IF "State" \in DOMAIN fields THEN fields.State ELSE ""

UpdateScan(id, fields) ==
  IF ~HasScan(store, id)
    THEN /\ ret' = Return("updateScan", "Error", "Scan not found")
         /\ published' = <<>>
         /\ UNCHANGED <<store, runs, now, created, publishOk, parser>>
    ELSE /\ store' = StoreUpdateScan(store, id, fields)
         /\ published' = Sent(<<Event("scans:updated", id, UpdateState(fields))>>)
         /\ ret' = IF publishOk
                     THEN Return("updateScan", "Success", "")
                     ELSE Return("updateScan", "Error", "Failed to update scan: publish failed")
         /\ UNCHANGED <<runs, now, created, publishOk, parser>>

(* ------------------------------- runScan ------------------------------ *)
\* a faulty RunScanCheck: the request must be present but is not parsed
RunScanCheckPresence(scan) ==
  IF scan.Target.request # <<>>
    THEN ""
    ELSE InvalidRequestFormat("Invalid scan target: Missing request data")

\* runScan's check of the stored target: "" when it passes, else the error
RunScanCheck(scan) ==
  LET parsed == parseRequest(scan.Target.request) IN
  IF scan.Target.request # <<>>
    THEN IF parsed.ok THEN "" ELSE InvalidRequestFormat(parsed.error)
    ELSE InvalidRequestFormat("Invalid scan target: Missing request data")

\* a faulty TimedOutFields: the timer callback stamps the scan but leaves
\* its State alone
TimedOutFieldsNoState(t) == [finishedAt |-> <<t>>]

\* what the timer callback writes
TimedOutFields(t) == [State |-> "Timed Out", finishedAt |-> <<t>>]

\* what the continuation after the await writes
CompletedFields(t) == [State |-> "Completed", finishedAt |-> <<t>>]

\* a faulty FailedFields: the catch block forgets the error message
FailedFieldsNoError(message, t) == [State |-> "Failed", finishedAt |-> <<t>>]

\* what the catch block writes
FailedFields(message, t) ==
  [State |-> "Failed", finishedAt |-> <<t>>,
   error |-> <<IF message # "" THEN message
               ELSE "Unknown error during scan execution">>]

\* the error the catch block returns
ScanFailed(message) ==
  CASE message = "" -> "Scan failed: Unknown error"
    [] message = "boom" -> "Scan failed: boom"
    [] OTHER -> "Scan failed: publish failed"

\* a faulty ClearTimeout: the timer stays armed after the await
KeepTimeout(timer) == timer

\* if (timeoutHandler) clearTimeout(timeoutHandler), after the await
ClearTimeout(timer) == IF timer = "armed" THEN "cleared" ELSE timer

\* a faulty ClearTimeoutInCatch: the catch block leaves the timer armed
KeepTimeoutInCatch(timer) == timer

\* if (timeoutHandler) clearTimeout(timeoutHandler), in the catch block
ClearTimeoutInCatch(timer) == IF timer = "armed" THEN "cleared" ELSE timer

\* the run started for a scan: timer armed, worker awaited; origin is the uid
\* of the scan it re-runs, 0 when runScan was called directly; removed is the
\* operation that took the run's scan out of the store, "no" while none did
NewRun(scan) ==
  [scanID |-> scan.ID, uid |-> scan.uid, timer |-> "armed",
   worker |-> "pending", result |-> "pending", won |-> "none",
   writes |-> <<>>, origin |-> 0, removed |-> "no"]

\* the run's log after it asked the store to merge a terminal State
Wrote(run, scans, state) ==
  Append(run.writes,
         Write(state, IF HasScan(scans, run.scanID)
                        THEN StoreGetScan(scans, run.scanID).uid
                        ELSE 0))

\* the first of timer and worker to act on the run
Won(run, who) == IF run.won = "none" THEN who ELSE run.won

\* whether runScan returns at one of its two checks
RunScanRefuses(id) ==
  IF HasScan(store, id) THEN RunScanCheck(StoreGetScan(store, id)) # "" ELSE TRUE

\* runScan up to its await
RunScan(id) ==
  IF ~HasScan(store, id)
    THEN /\ ret' = Return("runScan", "Error", "Scan not found")
         /\ published' = <<>>
         /\ UNCHANGED <<store, runs, now, created, publishOk, parser>>
  ELSE LET scan == StoreGetScan(store, id)
           check == RunScanCheck(scan)
           running == StoreUpdateScan(store, id, [State |-> "Running"])
       IN
       IF check # ""
         THEN /\ ret' = Return("runScan", "Error", check)
              /\ published' = <<>>
              /\ UNCHANGED <<store, runs, now, created, publishOk, parser>>
       ELSE
          /\ IF publishOk
               THEN /\ store' = running
                    /\ runs' = Append(runs, NewRun(scan))
                    /\ published' = <<Event("scans:updated", id, "Running")>>
                    /\ ret' = Return("runScan", "Pending", "")
               ELSE \* send throws before the timer is set: the catch block
                    \* writes Failed, and its own send throws out of runScan
                    /\ store' = StoreUpdateScan(running, id,
                                                FailedFields(PublishError, now))
                    /\ runs' = Append(runs,
                         [NewRun(scan) EXCEPT !.timer = "none", !.worker = "none",
                                              !.result = "Rejected",
                                              !.writes = <<Write("Failed", scan.uid)>>])
                    /\ published' = <<>>
                    /\ ret' = Return("runScan", "Rejected", PublishError)
          /\ UNCHANGED <<now, created, publishOk, parser>>

\* the setTimeout callback of run r
TimerFire(r) ==
  /\ runs[r].timer = "armed"
  /\ store' = StoreUpdateScan(store, runs[r].scanID, TimedOutFields(now))
  /\ runs' = [runs EXCEPT ![r].timer = "fired",
                          ![r].won = Won(runs[r], "timer"),
                          ![r].writes = Wrote(runs[r], store, "Timed Out")]
  /\ published' = Sent(<<Event("scans:updated", runs[r].scanID, "Timed Out")>>)
  /\ ret' = Return("timer", "None", "")
  /\ UNCHANGED <<now, created, publishOk, parser>>

\* the worker of run r resolves: runScan resumes after the await
WorkerResolve(r) ==
  LET id == runs[r].scanID
      completed == StoreUpdateScan(store, id, CompletedFields(now))
  IN /\ runs[r].worker = "pending"
     /\ IF publishOk
          THEN /\ store' = completed
               /\ runs' = [runs EXCEPT ![r].timer = ClearTimeout(@),
                                       ![r].worker = "resolved",
                                       ![r].result = "Success",
                                       ![r].won = Won(runs[r], "worker"),
                                       ![r].writes = Wrote(runs[r], store, "Completed")]
               /\ published' = <<Event("scans:updated", id, "Completed")>>
               /\ ret' = Return("runScan", "Success", "")
          ELSE /\ store' = StoreUpdateScan(completed, id,
                                           FailedFields(PublishError, now))
               /\ runs' = [runs EXCEPT ![r].timer = ClearTimeout(@),
                                       ![r].worker = "resolved",
                                       ![r].result = "Rejected",
                                       ![r].won = Won(runs[r], "worker"),
                                       ![r].writes =
                                         Wrote([runs[r] EXCEPT !.writes =
                                                  Wrote(runs[r], store, "Completed")],
                                               store, "Failed")]
               /\ published' = <<>>
               /\ ret' = Return("runScan", "Rejected", PublishError)
     /\ UNCHANGED <<now, created, publishOk, parser>>

\* the worker of run r rejects: runScan resumes in its catch block
WorkerReject(r, message) ==
  LET id == runs[r].scanID IN
  /\ runs[r].worker = "pending"
  /\ store' = StoreUpdateScan(store, id, FailedFields(message, now))
  /\ runs' = [runs EXCEPT ![r].timer = ClearTimeoutInCatch(@),
                          ![r].worker = "rejected",
                          ![r].result = IF publishOk THEN "Error" ELSE "Rejected",
                          ![r].won = Won(runs[r], "worker"),
                          ![r].writes = Wrote(runs[r], store, "Failed")]
  /\ published' = Sent(<<Event("scans:updated", id, "Failed")>>)
  /\ ret' = IF publishOk
              THEN Return("runScan", "Error", ScanFailed(message))
              ELSE Return("runScan", "Rejected", PublishError)
  /\ UNCHANGED <<now, created, publishOk, parser>>

(* ------------------------------ reRunScan ----------------------------- *)
\* the run reRunScan will start for the scan it created, before its call of
\* runScan: no timer, no worker yet
QueuedRun(scan, origin) ==
  [NewRun(scan) EXCEPT !.timer = "none", !.worker = "none",
                       !.result = "queued", !.origin = origin]

\* a faulty CloneTarget: the new scan is created without the request
DropRequest(scan) == [request |-> NoRequest]

\* the target reRunScan hands to addScan
CloneTarget(scan) == scan.Target

\* whether reRunScan returns without creating a scan
ReRunScanRefuses(id) ==
  IF HasScan(store, id)
    THEN AddScanCheck(CloneTarget(StoreGetScan(store, id))) # ""
    ELSE TRUE

\* reRunScan up to the end of its await of addScan
ReRunScan(id) ==
  IF ~HasScan(store, id)
    THEN /\ ret' = Return("reRunScan", "Error", "Scan not found")
         /\ published' = <<>>
         /\ UNCHANGED <<store, runs, now, created, publishOk, parser>>
  ELSE LET scan == StoreGetScan(store, id)
           check == AddScanCheck(CloneTarget(scan))
           newScan == NewScan(store, CloneTarget(scan), created + 1)
       IN
       IF check # ""
         THEN /\ ret' = Return("reRunScan", "Error", check)
              /\ published' = <<>>
              /\ UNCHANGED <<store, runs, now, created, publishOk, parser>>
       ELSE
          /\ store' = StoreAddScan(store, newScan)
          /\ created' = created + 1
          /\ published' = Sent(<<Event("scans:created", newScan.ID, "Running")>>)
          /\ IF publishOk
               THEN /\ runs' = Append(runs, QueuedRun(newScan, scan.uid))
                    /\ ret' = Return("reRunScan", "Pending", "")
               ELSE /\ runs' = runs
                    /\ ret' = Return("reRunScan", "Error",
                                     "Failed to add scan: publish failed")
          /\ UNCHANGED <<now, publishOk, parser>>

\* reRunScan resumes and calls runScan on the ID of the scan it created
ReRunContinue(r) ==
  LET id == runs[r].scanID IN
  /\ runs[r].result = "queued"
  /\ IF ~HasScan(store, id)
       THEN /\ runs' = [runs EXCEPT ![r].result = "Error"]
            /\ ret' = Return("reRunScan", "Error", "Scan not found")
            /\ published' = <<>>
            /\ UNCHANGED store
     ELSE LET scan == StoreGetScan(store, id)
              check == RunScanCheck(scan)
              running == StoreUpdateScan(store, id, [State |-> "Running"])
          IN
          IF check # ""
            THEN /\ runs' = [runs EXCEPT ![r].result = "Error"]
                 /\ ret' = Return("reRunScan", "Error", check)
                 /\ published' = <<>>
                 /\ UNCHANGED store
          ELSE IF publishOk
            THEN /\ store' = running
                 /\ runs' = [runs EXCEPT ![r] =
                               [NewRun(scan) EXCEPT !.origin = runs[r].origin]]
                 /\ published' = <<Event("scans:updated", id, "Running")>>
                 /\ ret' = Return("reRunScan", "Pending", "")
            ELSE \* runScan rejects as in RunScan; reRunScan catches it
                 /\ store' = StoreUpdateScan(running, id,
                                             FailedFields(PublishError, now))
                 /\ runs' = [runs EXCEPT ![r] =
                               [NewRun(scan) EXCEPT
                                  !.origin = runs[r].origin,
                                  !.timer = "none", !.worker = "none",
                                  !.result = "Error",
                                  !.writes = <<Write("Failed", scan.uid)>>]]
                 /\ published' = <<>>
                 /\ ret' = Return("reRunScan", "Error",
                                  "Failed to rerun scan: publish failed")
  /\ UNCHANGED <<now, created, publishOk, parser>>

(* ------------------------------ clearScans ---------------------------- *)
\* a faulty CancelAllEvents: clearScans cancels no scan
NoCancelEvents(scans) == <<>>

RECURSIVE CancelAllEvents(_)
CancelAllEvents(scans) ==
  IF scans = <<>> THEN <<>>
  ELSE (IF Head(scans).State = "Running"
          THEN <<Event("scans:updated", Head(scans).ID, "Cancelled")>>
          ELSE <<>>) \o CancelAllEvents(Tail(scans))

RECURSIVE CancelAllRuns(_, _, _)
CancelAllRuns(rs, scans, n) ==
  IF n = 0 THEN rs
  ELSE CancelRuns(CancelAllRuns(rs, scans, n - 1), scans, scans[n].ID)

RECURSIVE RemovedAll(_, _, _)
RemovedAll(rs, scans, n) ==
  IF n = 0 THEN rs
  ELSE RemovedBy(RemovedAll(rs, scans, n - 1), scans, scans[n].ID, "clearScans")

ClearScans ==
  /\ store' = StoreClearScans(store)
  /\ runs' = RemovedAll(CancelAllRuns(runs, store, Len(store)),
                        store, Len(store))
  /\ published' = Sent(CancelAllEvents(store) \o <<Event("scans:cleared", 0, "")>>)
  /\ ret' = IF publishOk
              THEN Return("clearScans", "Success", "")
              ELSE Return("clearScans", "Error", "Failed to clear scans: publish failed")
  /\ UNCHANGED <<now, created, publishOk, parser>>

(* ------------------------------ environment --------------------------- *)
\* time passes between two readings of the clock
Tick ==
  /\ now < MaxTime
  /\ now' = now + 1
  /\ UNCHANGED <<store, runs, created, publishOk, ret, published, parser>>

\* the event publisher starts or stops throwing
SetPublisher(ok) ==
  /\ publishOk # ok
  /\ publishOk' = ok
  /\ UNCHANGED <<store, runs, now, created, ret, published, parser>>

(* ------------------------------ the parser ---------------------------- *)
\* parseRequest is called on the request text
ParseRequest ==
  /\ parser.op = "input"
  /\ parser' = [op |-> "parseRequest", input |-> parser.input,
                output |-> parseRequest(RequestText(parser.input))]
  /\ UNCHANGED <<store, runs, now, created, publishOk, ret, published>>

\* parseHeaders is called on the header lines
ParseHeaders ==
  /\ parser.op = "input"
  /\ parser' = [op |-> "parseHeaders", input |-> parser.input,
                output |-> parseHeaders(HeaderTexts(parser.input))]
  /\ UNCHANGED <<store, runs, now, created, publishOk, ret, published>>

(* ---------------------------- specifications -------------------------- *)
Init ==
  /\ store = <<>>
  /\ runs = <<>>
  /\ now = 1
  /\ created = 0
  /\ publishOk = TRUE
  /\ ret = Return("init", "None", "")
  /\ published = <<>>
  /\ parser = NoCall

\* creations and runs are counted against a budget; refused calls are free
Budget(limit) == created + Len(runs) < limit

Next ==
  \/ \E target \in Targets :
       /\ Budget(MaxWork) \/ AddScanCheck(target) # ""
       /\ AddScan(target)
  \/ \E id \in ScanIds : DeleteScan(id)
  \/ \E id \in ScanIds, fields \in UpdateFields : UpdateScan(id, fields)
  \/ \E id \in ScanIds :
       /\ IF RunScanRefuses(id) THEN TRUE ELSE Budget(MaxWork)
       /\ RunScan(id)
  \/ \E id \in ScanIds : CancelScan(id)
  \/ \E r \in 1..Len(runs) : TimerFire(r)
  \/ \E r \in 1..Len(runs) : WorkerResolve(r)
  \/ \E r \in 1..Len(runs), message \in WorkerMessages : WorkerReject(r, message)
  \/ ClearScans
  \/ Tick

\* the publisher always delivers
Spec == Init /\ [][Next]_vars

\* an armed timer that is not cleared fires: setTimeout calls back once the
\* delay has elapsed, whatever the worker does
TimerFairness ==
  \A r \in 1..MaxWork : WF_vars(r \in 1..Len(runs) /\ TimerFire(r))

\* the operations that write a scan's State or remove a scan; the clock and
\* the edits of a Target do not bear on a scan leaving Running
NextTimer ==
  \/ \E target \in Targets :
       /\ Budget(MaxWork) \/ AddScanCheck(target) # ""
       /\ AddScan(target)
  \/ \E id \in ScanIds : DeleteScan(id)
  \/ \E id \in ScanIds :
       /\ IF RunScanRefuses(id) THEN TRUE ELSE Budget(MaxWork)
       /\ RunScan(id)
  \/ \E id \in ScanIds : CancelScan(id)
  \/ \E r \in 1..Len(runs) : TimerFire(r)
  \/ \E r \in 1..Len(runs) : WorkerResolve(r)
  \/ \E r \in 1..Len(runs), message \in WorkerMessages : WorkerReject(r, message)
  \/ ClearScans

SpecTimer == Init /\ [][NextTimer]_vars /\ TimerFairness

\* the publisher may throw
SpecPublish == Init /\ [][Next \/ \E ok \in BOOLEAN : SetPublisher(ok)]_vars

\* the operations that add, remove or edit stored scans, over more creations
NextIds ==
  \/ \E target \in Targets :
       /\ created < MaxIds \/ AddScanCheck(target) # ""
       /\ AddScan(target)
  \/ \E id \in 1..MaxIds : DeleteScan(id)
  \/ \E id \in 1..MaxIds, fields \in UpdateFields : UpdateScan(id, fields)
  \/ \E id \in 1..MaxIds : CancelScan(id)
  \/ ClearScans

SpecIds == Init /\ [][NextIds]_vars

\* createScan, updateScan, runScan with its timer and worker, and reRunScan,
\* without cancellation, over a larger budget: a scan can be run twice
NextRun ==
  \/ \E target \in Targets :
       /\ Budget(MaxRunWork) \/ AddScanCheck(target) # ""
       /\ AddScan(target)
  \/ \E id \in 1..MaxRunWork, fields \in UpdateFields : UpdateScan(id, fields)
  \/ \E id \in 1..MaxRunWork :
       /\ IF RunScanRefuses(id) THEN TRUE ELSE Budget(MaxRunWork)
       /\ RunScan(id)
  \/ \E id \in 1..MaxRunWork :
       /\ IF ReRunScanRefuses(id) THEN TRUE ELSE Budget(MaxRunWork - 1)
       /\ ReRunScan(id)
  \/ \E r \in 1..Len(runs) : ReRunContinue(r)
  \/ \E r \in 1..Len(runs) : TimerFire(r)
  \/ \E r \in 1..Len(runs) : WorkerResolve(r)
  \/ \E r \in 1..Len(runs), message \in WorkerMessages : WorkerReject(r, message)
  \/ Tick

SpecRun == Init /\ [][NextRun]_vars

\* reRunScan with the operations that create, edit and run the scans it
\* clones, at one reading of the clock
NextReRun ==
  \/ \E target \in Targets :
       /\ Budget(MaxRunWork) \/ AddScanCheck(target) # ""
       /\ AddScan(target)
  \/ \E id \in 1..MaxRunWork, fields \in UpdateFields : UpdateScan(id, fields)
  \/ \E id \in 1..MaxRunWork :
       /\ IF RunScanRefuses(id) THEN TRUE ELSE Budget(MaxRunWork)
       /\ RunScan(id)
  \/ \E id \in 1..MaxRunWork :
       /\ IF ReRunScanRefuses(id) THEN TRUE ELSE Budget(MaxRunWork - 1)
       /\ ReRunScan(id)
  \/ \E r \in 1..Len(runs) : ReRunContinue(r)
  \/ \E r \in 1..Len(runs) : TimerFire(r)
  \/ \E r \in 1..Len(runs) : WorkerResolve(r)
  \/ \E r \in 1..Len(runs), message \in WorkerMessages : WorkerReject(r, message)

SpecReRun == Init /\ [][NextReRun]_vars

\* the parser alone, called once on any of the request texts
InitParse ==
  /\ store = <<>>
  /\ runs = <<>>
  /\ now = 1
  /\ created = 0
  /\ publishOk = TRUE
  /\ ret = Return("init", "None", "")
  /\ published = <<>>
  /\ parser \in {[op |-> "input", input |-> in] :
                   in \in {i \in ParserInputs : i.blank \/ i.bodyLines = <<>>}}

NextParse == ParseRequest \/ ParseHeaders

SpecParse == InitParse /\ [][NextParse]_vars

\* every operation, over the larger budget: a scan can be removed while its
\* run is in flight and another scan created afterwards
NextAll ==
  \/ \E target \in Targets :
       /\ Budget(MaxRunWork) \/ AddScanCheck(target) # ""
       /\ AddScan(target)
  \/ \E id \in 1..MaxRunWork : DeleteScan(id)
  \/ \E id \in 1..MaxRunWork, fields \in UpdateFields : UpdateScan(id, fields)
  \/ \E id \in 1..MaxRunWork :
       /\ IF RunScanRefuses(id) THEN TRUE ELSE Budget(MaxRunWork)
       /\ RunScan(id)
  \/ \E id \in 1..MaxRunWork :
       /\ IF ReRunScanRefuses(id) THEN TRUE ELSE Budget(MaxRunWork - 1)
       /\ ReRunScan(id)
  \/ \E r \in 1..Len(runs) : ReRunContinue(r)
  \/ \E id \in 1..MaxRunWork : CancelScan(id)
  \/ \E r \in 1..Len(runs) : TimerFire(r)
  \/ \E r \in 1..Len(runs) : WorkerResolve(r)
  \/ \E r \in 1..Len(runs), message \in WorkerMessages : WorkerReject(r, message)
  \/ ClearScans
  \/ Tick

SpecAll == Init /\ [][NextAll]_vars

(* -------------------------------- claims ------------------------------ *)
\* the writes of a log that the store applied
Applied(writes) == LET Hit(w) == w.uid # 0 IN SelectSeq(writes, Hit)

\* the writes of a log made by the run's own timer and worker
OwnWrites(writes) ==
  LET Own(w) == w.state # "Cancelled" IN SelectSeq(writes, Own)

\* C1: for every run that reached Running, at most one terminal write
\* (Completed, Failed, Timed Out, Cancelled) is applied to the store, whatever
\* the order of worker resolution, timer fire and cancellation.
C1_AtMostOneTerminalWrite ==
  \A r \in 1..Len(runs) : Len(Applied(runs[r].writes)) <= 1

\* C2: when the timer of a run fired before its worker resolved, the scan is
\* Timed Out and the worker's later success does not make it Completed.
C2_TimedOutNeverCompleted ==
  \A r \in 1..Len(runs) :
    runs[r].won = "timer" =>
      \A i \in 1..Len(runs[r].writes) :
        ~(runs[r].writes[i].state = "Completed" /\ runs[r].writes[i].uid # 0)

\* C3: when the worker of a run resolves successfully before the deadline,
\* the run asks the store for exactly one terminal write, Completed, and its
\* timer is disarmed, so that no timer fire of the run follows.
C3_CompletedOnceTimerDisarmed ==
  \A r \in 1..Len(runs) :
    (runs[r].won = "worker" /\ runs[r].worker = "resolved") =>
      /\ runs[r].timer = "cleared"
      /\ Len(OwnWrites(runs[r].writes)) = 1
      /\ OwnWrites(runs[r].writes)[1].state = "Completed"

C3_Witness ==
  \E r \in 1..Len(runs) :
    /\ runs[r].won = "worker"
    /\ runs[r].result = "Success"
    /\ HasScan(store, runs[r].scanID)
    /\ StoreGetScan(store, runs[r].scanID).uid = runs[r].uid
    /\ StoreGetScan(store, runs[r].scanID).State = "Completed"
    /\ StoreGetScan(store, runs[r].scanID).finishedAt # <<>>
    /\ now = MaxTime

\* C4: in every reachable state every stored scan has finishedAt set exactly
\* when its State is terminal, and error set exactly when its State is Failed.
C4_FinishedIffTerminal ==
  \A i \in 1..Len(store) :
    /\ store[i].finishedAt # <<>> <=> store[i].State \in Terminal
    /\ store[i].error # <<>> <=> store[i].State = "Failed"

\* C5: once a stored scan is in a terminal State, no step of the engine other
\* than an explicit updateScan changes its State or its finishedAt while it
\* stays stored.
C5_TerminalAbsorbing ==
  [][ret'.op # "updateScan" =>
       \A i \in 1..Len(store), j \in 1..Len(store') :
         (store[i].State \in Terminal /\ store'[j].uid = store[i].uid) =>
           /\ store'[j].State = store[i].State
           /\ store'[j].finishedAt = store[i].finishedAt]_vars

\* C6: once a scan with a run in flight has been cancelled, the resolution or
\* failure of that run's worker leaves the stored State Cancelled.
C6_LateResolutionDiscarded ==
  [][\A r \in 1..Len(runs) :
       (/\ runs[r].worker = "pending"
        /\ runs'[r].worker # "pending"
        /\ HasScan(store, runs[r].scanID)
        /\ StoreGetScan(store, runs[r].scanID).State = "Cancelled") =>
         (/\ HasScan(store', runs[r].scanID)
          /\ StoreGetScan(store', runs[r].scanID).State = "Cancelled")]_vars

IdsOf(scans) == {scans[i].ID : i \in 1..Len(scans)}

MaxOf(S) == IF S = {} THEN 0 ELSE CHOOSE m \in S : \A x \in S : x <= m

\* C7: stored IDs are positive and pairwise distinct; a created scan gets
\* 1 + the largest stored ID (1 on an empty store) and is appended; and after
\* a non-maximal ID is removed the next ID to be assigned is not that ID.
C7_IdAssignment ==
  /\ [](\A i, j \in 1..Len(store) :
          /\ store[i].ID >= 1
          /\ i # j => store[i].ID # store[j].ID)
  /\ [][/\ Len(store') = Len(store) + 1 =>
             /\ store'[Len(store')].ID = MaxOf(IdsOf(store)) + 1
             /\ SubSeq(store', 1, Len(store)) = store
        /\ \A d \in IdsOf(store) \ IdsOf(store') :
             (\E e \in IdsOf(store') : e > d) =>
               /\ NextId(store') = MaxOf(IdsOf(store')) + 1
               /\ NextId(store') # d]_vars

\* ID 1 was deleted while 2 was stored, and the scan created next got ID 3
C7_Witness ==
  /\ ret = Return("addScan", "Success", "")
  /\ published = <<Event("scans:created", 3, "Running")>>
  /\ Len(store) = 2
  /\ store[1].ID = 2
  /\ store[2].ID = 3

\* C8: createScan with a request text that is present and does not parse
\* returns an error, stores nothing, consumes no ID and publishes nothing.
C8_RejectedCreateChangesNothing ==
  [][\A target \in Targets :
       (/\ ret'.op = "addScan"
        /\ target.request # <<>>
        /\ ~parseRequest(target.request).ok
        /\ AddScan(target)) =>
         /\ ret'.op = "addScan"
         /\ ret'.kind = "Error"
         /\ store' = store
         /\ NextId(store') = NextId(store)
         /\ created' = created
         /\ published' = <<>>]_vars

C8_Witness ==
  /\ ret = Return("addScan", "Error",
                  "Invalid request format: Request parsing failed: Invalid request line format")
  /\ published = <<>>
  /\ Len(store) = 1

\* C9: runScan on an absent ID returns "Scan not found", and on a scan whose
\* request is missing or does not parse returns "Invalid request format";
\* either way the store and the runs are unchanged and nothing is published.
C9_RejectedRunChangesNothing ==
  [][\A id \in ScanIds :
       /\ (ret'.op = "runScan" /\ ~HasScan(store, id) /\ RunScan(id)) =>
            /\ ret' = Return("runScan", "Error", "Scan not found")
            /\ store' = store /\ runs' = runs /\ published' = <<>>
       /\ (/\ ret'.op = "runScan"
           /\ HasScan(store, id)
           /\ \/ StoreGetScan(store, id).Target.request = <<>>
              \/ ~parseRequest(StoreGetScan(store, id).Target.request).ok
           /\ RunScan(id)) =>
            /\ ret'.op = "runScan"
            /\ ret'.kind = "Error"
            /\ ret'.error \in
                 {"Invalid request format: Invalid scan target: Missing request data",
                  "Invalid request format: Request parsing failed: Invalid request line format"}
            /\ store' = store /\ runs' = runs /\ published' = <<>>]_vars

\* a stored scan whose request no longer parses was refused by runScan
C9_Witness ==
  /\ ret = Return("runScan", "Error",
                  "Invalid request format: Request parsing failed: Invalid request line format")
  /\ \E i \in 1..Len(store) : store[i].Target.request = BadRequest
  /\ runs = <<>>

\* C10: when the worker of a run fails before the timer fired and the scan is
\* stored, the scan becomes Failed with finishedAt set and error set (to the
\* worker's message when it has one), scans:updated is published, runScan
\* returns an error, and getScan then shows State Failed and the error.
C10_WorkerFailureRecorded ==
  [][\A r \in 1..Len(runs), message \in WorkerMessages :
       (/\ runs[r].timer = "armed"
        /\ HasScan(store, runs[r].scanID)
        /\ WorkerReject(r, message)) =>
         /\ getScan(runs[r].scanID)'.kind = "Success"
         /\ getScan(runs[r].scanID)'.value.State = "Failed"
         /\ getScan(runs[r].scanID)'.value.finishedAt = <<now>>
         /\ getScan(runs[r].scanID)'.value.error # <<>>
         /\ message # "" => getScan(runs[r].scanID)'.value.error = <<message>>
         /\ published' = <<Event("scans:updated", runs[r].scanID, "Failed")>>
         /\ ret'.op = "runScan"
         /\ ret'.kind = "Error"
         /\ runs'[r].result = "Error"]_vars

C10_Witness ==
  /\ ret = Return("runScan", "Error", "Scan failed: boom")
  /\ \E r \in 1..Len(runs) :
       /\ runs[r].result = "Error"
       /\ runs[r].timer = "cleared"
       /\ getScan(runs[r].scanID).kind = "Success"
       /\ getScan(runs[r].scanID).value.State = "Failed"
       /\ getScan(runs[r].scanID).value.error = <<"boom">>
       /\ getScan(runs[r].scanID).value.finishedAt = <<now>>

\* C11: in a run whose timer fired before its worker settled, runScan never
\* returns an error, whether the worker later resolves, fails or stays pending.
C11_TimeoutNotAnError ==
  \A r \in 1..Len(runs) :
    runs[r].won = "timer" => runs[r].result \notin {"Error", "Rejected"}

\* C12: a publish that throws does not fail the operation: createScan returns
\* success for the scan it stored, and a run whose worker resolves returns
\* success and leaves the stored scan Completed.
C12_PublishFailureTolerated ==
  [][/\ (ret'.op = "addScan" /\ Len(store') = Len(store) + 1) =>
          ret'.kind = "Success"
     /\ \A r \in 1..Len(runs) :
          (/\ runs[r].worker = "pending"
           /\ runs'[r].worker = "resolved"
           /\ HasScan(store, runs[r].scanID)) =>
            /\ runs'[r].result = "Success"
            /\ StoreGetScan(store', runs[r].scanID).State = "Completed"]_vars

\* the timer or the worker of run r acts in this step
RunActs(r) ==
  \/ runs'[r].timer # runs[r].timer
  \/ runs'[r].worker # runs[r].worker

\* C13: clearScans cancels every Running scan and no other, empties the
\* store and publishes scans:cleared last, so that getScans returns an empty
\* sequence; and a timer or worker of a run that acts on the empty store
\* leaves it empty.
C13_ClearEmptiesStore ==
  [][/\ (ret'.op = "clearScans" /\ ClearScans) =>
          /\ store' = <<>>
          /\ getScans'.value = <<>>
          /\ ret'.kind = "Success"
          /\ published'[Len(published')] = Event("scans:cleared", 0, "")
          /\ \A i \in 1..Len(store) :
               store[i].State = "Running" <=>
                 \E k \in 1..Len(published') :
                   published'[k] = Event("scans:updated", store[i].ID, "Cancelled")
          /\ \A r \in 1..Len(runs) :
               (/\ runs[r].result = "pending"
                /\ HasScan(store, runs[r].scanID)
                /\ StoreGetScan(store, runs[r].scanID).State = "Running") =>
                 runs'[r].writes[Len(runs'[r].writes)].state = "Cancelled"
     /\ \A r \in 1..Len(runs) :
          (store = <<>> /\ Len(runs') = Len(runs) /\ RunActs(r)) =>
            /\ store' = <<>>
            /\ getScans'.value = <<>>]_vars

\* clearScans cancelled and removed a Running scan whose run was in flight;
\* the run's timer has fired since, on a store that is still empty
C13_Witness ==
  /\ store = <<>>
  /\ getScans.value = <<>>
  /\ ret = Return("timer", "None", "")
  /\ \E r \in 1..Len(runs) :
       /\ runs[r].removed = "clearScans"
       /\ runs[r].timer = "fired"
       /\ runs[r].writes = <<Write("Cancelled", runs[r].uid), Write("Timed Out", 0)>>

\* reRunScan on an unknown ID returns "Scan not found" and creates nothing
ReRunUnknown(id) ==
  (ret'.op = "reRunScan" /\ ~HasScan(store, id) /\ ReRunScan(id)) =>
    /\ ret' = Return("reRunScan", "Error", "Scan not found")
    /\ store' = store /\ runs' = runs /\ created' = created
    /\ published' = <<>>

\* the step appended a scan cloned from scan id, with an ID no stored scan
\* has, the same Target and no Results, left every stored scan as it was and
\* queued the new scan's run
ReRunClones(id) ==
  /\ Len(store') = Len(store) + 1
  /\ SubSeq(store', 1, Len(store)) = store
  /\ store'[Len(store')].ID \notin IdsOf(store)
  /\ store'[Len(store')].Target = StoreGetScan(store, id).Target
  /\ store'[Len(store')].Results = <<>>
  /\ Len(runs') = Len(runs) + 1
  /\ runs'[Len(runs')].scanID = store'[Len(store')].ID
  /\ runs'[Len(runs')].origin = StoreGetScan(store, id).uid

\* the queued run of a re-run calls runScan on the new scan, and no step of a
\* re-run's run (that call, its timer, its worker) changes the original
ReRunLeavesOriginal ==
  \A r \in 1..Len(runs) :
    /\ (/\ runs[r].result = "queued"
        /\ runs'[r].result # "queued"
        /\ ~RunScanRefuses(runs[r].scanID)) =>
         /\ runs'[r].timer = "armed"
         /\ runs'[r].worker = "pending"
         /\ StoreGetScan(store', runs[r].scanID).State = "Running"
    /\ (/\ runs[r].origin # 0
        /\ RunActs(r) \/ runs'[r].result # runs[r].result) =>
         \A i \in 1..Len(store) :
           store[i].uid = runs[r].origin =>
             \E j \in 1..Len(store') : store'[j] = store[i]

C15_DeleteRemoves ==
  [][/\ \A id \in 1..MaxRunWork :
          (ret'.op = "deleteScan" /\ DeleteScan(id)) =>
            /\ getScan(id)'.kind = "Error"
            /\ getScan(id)'.error = "Scan not found"
            /\ published'[Len(published')] = Event("scans:deleted", id, "")
            /\ LET Other(scan) == scan.ID # id IN store' = SelectSeq(store, Other)
     /\ \A r \in 1..Len(runs) :
          (/\ runs[r].removed = "deleteScan"
           /\ Len(runs') = Len(runs)
           /\ RunActs(r)) =>
            store' = store]_vars

\* C18: every terminal write that the timer or the worker of a run gets
\* applied by the store lands on the scan the run was started for, also when
\* that scan was removed meanwhile and its ID given to a new scan.
C18_WritesOnlyOwnScan ==
  \A r \in 1..Len(runs) :
    \A k \in 1..Len(runs[r].writes) :
      (runs[r].writes[k].state # "Cancelled" /\ runs[r].writes[k].uid # 0) =>
        runs[r].writes[k].uid = runs[r].uid

\* runScan has returned to its caller for this run
Returned(run) == run.result \in {"Success", "Error", "Rejected"}

\* C19: once runScan has returned for a run, by the worker's success or by
\* its failure, the run's timer is not armed, and no later step fires it or
\* adds a Timed Out write to the run's log.
C19_TimerDisarmedOnReturn ==
  /\ [](\A r \in 1..Len(runs) : Returned(runs[r]) => runs[r].timer # "armed")
  /\ [][\A r \in 1..Len(runs) :
          Returned(runs[r]) =>
            /\ runs'[r].timer = runs[r].timer
            /\ \A k \in 1..Len(runs'[r].writes) :
                 runs'[r].writes[k].state = "Timed Out" =>
                   k <= Len(runs[r].writes)]_vars

\* runScan returned the worker's failure, its timer was disarmed unfired,
\* and time has passed since without a Timed Out write
C19_Witness ==
  \E r \in 1..Len(runs) :
    /\ runs[r].result = "Error"
    /\ runs[r].timer = "cleared"
    /\ runs[r].writes = <<Write("Failed", runs[r].uid)>>
    /\ getScan(runs[r].scanID).kind = "Success"
    /\ getScan(runs[r].scanID).value.finishedAt = <<1>>
    /\ now = MaxTime

\* the scan run r was started for has left the store
ScanGone(r) == \A i \in 1..Len(store) : store[i].uid # runs[r].uid

\* the scan run r was started for is stored in a terminal State
ScanTerminal(r) ==
  \E i \in 1..Len(store) :
    store[i].uid = runs[r].uid /\ store[i].State \in Terminal

\* C20: given that an armed timer eventually fires, the scan of every run
\* that was started eventually is in a terminal State, unless it is removed
\* from the store, even when the run's worker never settles.
C20_RunLeavesRunning ==
  \A r \in 1..MaxWork :
    (r <= Len(runs) /\ runs[r].timer = "armed") ~>
      (r <= Len(runs) /\ (ScanGone(r) \/ ScanTerminal(r)))

\* the timer of a run fired while its worker is still pending, and the scan,
\* still stored, is Timed Out
C20_Witness ==
  \E r \in 1..Len(runs) :
    /\ runs[r].timer = "fired"
    /\ runs[r].worker = "pending"
    /\ runs[r].removed = "no"
    /\ runs[r].writes = <<Write("Timed Out", runs[r].uid)>>
    /\ getScan(runs[r].scanID).kind = "Success"
    /\ getScan(runs[r].scanID).value.uid = runs[r].uid
    /\ getScan(runs[r].scanID).value.State = "Timed Out"

\* the last header line of hs with the key k
LastWithKey(hs, k) ==
  hs[CHOOSE i \in 1..Len(hs) :
       /\ hs[i].colon /\ hs[i].key = k
       /\ \A j \in (i + 1)..Len(hs) : ~(hs[j].colon /\ hs[j].key = k)]

\* the mapping the claim describes: one entry per key of the lines that hold
\* a colon, with the value of the last such line
HeadersOf(hs) ==
  [k \in {hs[i].key : i \in {j \in 1..Len(hs) : hs[j].colon}} |->
     LastWithKey(hs, k).value]

\* C16: parseHeaders skips a line without a colon, splits every other line
\* at its first colon into a trimmed, lower-cased key and a trimmed value
\* that keeps the later colons, and stores the later value of a repeated key.
C16_ParseHeaders ==
  parser.op = "parseHeaders" =>
    parser.output = HeadersOf(parser.input.headerLines)

\* lines joined with CRLF, written from the last line backwards
RECURSIVE Crlf(_)
Crlf(lines) ==
  IF Len(lines) = 0 THEN <<>>
  ELSE IF Len(lines) = 1 THEN lines[1]
  ELSE Crlf(SubSeq(lines, 1, Len(lines) - 1)) \o <<"\r", "\n">> \o lines[Len(lines)]

\* C17: parseRequest on a text whose first line holds a method and a URI
\* returns the method upper-cased, the URI, the third token or HTTP/1.1 as
\* protocol, the lines up to the first empty line parsed as headers, and as
\* body the lines after that empty line joined with CRLF, "" when there is
\* none; no line after the empty line is read as a header. On a first line
\* with fewer than two tokens it fails.
C17_ParseRequest ==
  parser.op = "parseRequest" =>
    LET in == parser.input
        out == parser.output
    IN IF in.requestLine.ok
         THEN /\ out.ok
              /\ out.method = in.requestLine.method
              /\ out.uri = in.requestLine.uri
              /\ out.protocol = in.requestLine.protocol
              /\ out.headers = parseHeaders(HeaderTexts(in))
              /\ out.body = IF in.blank THEN Crlf(in.bodyLines) ELSE <<>>
         ELSE ~out.ok

\* " get \t/x H/1 ", the header "X:a:b", an empty line and the body lines
\* "x:a" and "b", with LF line ends, have been parsed
C17_Witness ==
  /\ parser.op = "parseRequest"
  /\ parser.input.blank
  /\ parser.input.lineEnd = <<"\n">>
  /\ parser.input.bodyLines = << <<"x", ":", "a">>, <<"b">> >>
  /\ Len(parser.input.headerLines) = 1
  /\ parser.output.ok
  /\ parser.output.method = <<"G", "E", "T">>
  /\ parser.output.uri = <<"/", "x">>
  /\ parser.output.protocol = <<"H", "/", "1">>
  /\ parser.output.headers = (<<"x">> :> <<"a", ":", "b">>)
  /\ parser.output.body = <<"x", ":", "a", "\r", "\n", "b">>

====
